---- MODULE Spec2Model ----
(***************************************************************************)
(* FROSTore peer coordination: the caller-facing Swarm API (swarm.rs), the  *)
(* generation and signing coordinators (input.rs) and the event dispatch    *)
(* loop that connects them.                                                 *)
(***************************************************************************)
EXTENDS Integers, Sequences, FiniteSets, Bags, TLC

\* ---------------------------------------------------------------- bounds
NumPeers == 3        \* peers the lookup can return
NumIds == 2          \* values a random 32-character id is drawn from
MaxBuf == 1          \* unread events a broadcast receiver buffers
TickStep == 60       \* time units the clock advances in one step
MAX_SIGNERS == 2     \* value of the setting crate::settings::MAX_SIGNERS
MaxAddrs == 2        \* listen addresses the node can come to have

\* ------------------------------------------------------ program constants
LookupTimeout == 30
JoinTimeout == 120

\* the calls of a run, each with its own oneshot channel and session
Calls == {1, 2}
Peers == 1 .. NumPeers
Ids == 1 .. NumIds
\* kad numbers its queries: one lookup for every call
KadQueryIds == 1 .. Cardinality(Calls)

VARIABLES
    budget,          \* calls the application has yet to issue
    network,         \* the peer lists the network can report in this run
    addresses,       \* the listen addresses the node comes to have in this run
    abandons,        \* whether the application of this run drops its futures
    listener_vec,    \* the node's listen addresses, shared behind a RwLock
    kind,            \* call -> "none" | "generate" | "sign"
    input,           \* the SwarmInput command queue (mpsc::unbounded)
    tx,              \* call -> state of the oneshot sender
    handle,          \* call -> state of the future given to the caller
    pc,              \* call -> position of the session task
    generation_id,   \* call -> session id drawn by generate / sign
    query_id,        \* call -> kad QueryId of the session's lookup
    peers,           \* call -> candidates left of the lookup result
    peer_map,        \* call -> selected peers (as strings), in selection order
    responses,       \* call -> peers of the matching subscription event
    result,          \* call -> what the session task returned
    count,           \* call -> loop counter of the invitation loop
    onion,           \* call -> group key a sign call is issued for
    elapsed,         \* call -> time units since the session's timer was armed
    closest_peer_rx, \* call -> unread (QueryId, GetClosestPeersOk) events
    subscribed_rx,   \* call -> unread (TopicHash, Vec<PeerId>) events
    subscribe_tx,    \* subscribe requests not yet taken by the loop
    direct_peer_msg, \* direct messages not yet taken by the loop
    peer_msg,        \* topic broadcasts not yet taken by the loop
    subscriptions,   \* topics the node has subscribed to
    sent_direct,     \* bag of direct messages put on the network
    published,       \* bag of topic messages put on the network
    signature        \* call -> outcome of the signing rounds

vars == << budget, network, addresses, abandons, listener_vec, kind, input, tx, handle, pc, generation_id, query_id, peers,
           peer_map, responses, result, count, onion, elapsed, closest_peer_rx, subscribed_rx,
           subscribe_tx, direct_peer_msg, peer_msg, subscriptions, sent_direct,
           published, signature >>

callVars == << budget, network, addresses, abandons, kind, onion, input, tx,
              handle >>
netVars == << listener_vec, subscriptions, sent_direct, published >>
chanVars == << subscribe_tx, direct_peer_msg, peer_msg >>
rxVars == << closest_peer_rx, subscribed_rx >>
genVars == << generation_id, peers, peer_map, responses, count >>

\* ---------------------------------------------------------------- helpers
RemoveAt(s, i) == SubSeq(s, 1, i - 1) \o SubSeq(s, i + 1, Len(s))

Range(s) == { s[i] : i \in 1 .. Len(s) }

Contains(s, x) == \E i \in 1 .. Len(s) : s[i] = x

\* PeerId::to_string and str::parse::<PeerId>
PeerToString(p) == << "peer", p >>

ParsePeer(str) == str[2]

\* gossipsub::IdentTopic::new(id) / TopicHash::from_raw(id) / TopicHash::as_str
TopicOf(id) == << "topic", id >>

TopicStr(topic) == topic[2]

\* b64.encode(bincode::serialize(&fields)) behind a textual command tag
Envelope(tag, fields) == [tag |-> tag, b64 |-> fields]

\* the inviter's own identity
LocalPeerId == << "peer", 0 >>

\* the n-th listen address of the node
Multiaddr(n) == << "addr", n >>

\* the peer lists an event can carry: the first n peers, for every n
PeerLists == { [i \in 1 .. n |-> i] : n \in 0 .. NumPeers }

\* ------------------------------------------------------------ value shapes
NoVal == << "none", 0 >>

VerifyingKeyOf(id) == << "key", id >>

SignatureOf(c) == << "sig", c >>

Message == << "msg", 0 >>

QueryKey(q) == << "query", q >>

Lagged == [key |-> << "lagged", 0 >>, peers |-> << >>]

Event(key, ps) == [key |-> key, peers |-> ps]

TxNone == [st |-> "none", val |-> NoVal]

TxOpen == [st |-> "open", val |-> NoVal]

TxSent(v) == [st |-> "sent", val |-> v]

TxDropped == [st |-> "dropped", val |-> NoVal]

HandleNone == [st |-> "none", val |-> NoVal, err |-> "none"]

HandlePending == [st |-> "pending", val |-> NoVal, err |-> "none"]

HandleOk(v) == [st |-> "ok", val |-> v, err |-> "none"]

HandleErr(e) == [st |-> "err", val |-> NoVal, err |-> e]

HandleDropped == [st |-> "dropped", val |-> NoVal, err |-> "none"]

Start(n, lists, addrs, drops) ==
    /\ budget = n
    /\ network = lists
    /\ addresses = [i \in 1 .. addrs |-> Multiaddr(i)]
    /\ abandons = drops
    /\ listener_vec = << Multiaddr(1) >>
    /\ kind = [c \in Calls |-> "none"]
    /\ onion = [c \in Calls |-> 0]
    /\ input = << >>
    /\ tx = [c \in Calls |-> TxNone]
    /\ handle = [c \in Calls |-> HandleNone]
    /\ pc = [c \in Calls |-> "idle"]
    /\ generation_id = [c \in Calls |-> 0]
    /\ query_id = [c \in Calls |-> 0]
    /\ peers = [c \in Calls |-> << >>]
    /\ peer_map = [c \in Calls |-> << >>]
    /\ responses = [c \in Calls |-> << >>]
    /\ result = [c \in Calls |-> "none"]
    /\ count = [c \in Calls |-> 0]
    /\ elapsed = [c \in Calls |-> 0]
    /\ closest_peer_rx = [c \in Calls |-> << >>]
    /\ subscribed_rx = [c \in Calls |-> << >>]
    /\ subscribe_tx = << >>
    /\ direct_peer_msg = << >>
    /\ peer_msg = << >>
    /\ subscriptions = {}
    /\ sent_direct = EmptyBag
    /\ published = EmptyBag
    /\ signature = [c \in Calls |-> "none"]

\* one call, in a network that can report any of the peer lists, on a node
\* with one listen address, by an application that keeps its futures
Init == Start(1, PeerLists, 1, FALSE)

\* a network that reports exactly MAX_SIGNERS peers or all NumPeers of them
FullLists == { [i \in 1 .. n |-> i] : n \in {MAX_SIGNERS, NumPeers} }

\* one call, on a node whose listen addresses grow
InitAddrs == Start(1, FullLists, MaxAddrs, FALSE)

\* one call, by an application that may drop the future it is given
InitDrop == Start(1, FullLists, 1, TRUE)

\* two calls, in a network of exactly MAX_SIGNERS peers, on a node with one
\* listen address, by an application that keeps its futures
InitPair == Start(2, {[i \in 1 .. MAX_SIGNERS |-> i]}, 1, FALSE)

\* ------------------------------------------------- Swarm API (swarm.rs)
\* the messages of the SwarmError variants
InvalidSignature == "Produced a signature that is invalid"

MessageProcessingError == "Message processing error"

InvalidPeer == "Invalid peer responded"

\* a future that swallows the dropped sender and completes with a value
AwaitRxOrDefault(t) == HandleOk(t.val)

\* the future of Swarm::generate / Swarm::sign:
\*   rx.await.map_err(|_| SwarmError::MessageProcessingError)
AwaitRx(t) ==
    IF t.st = "sent" THEN HandleOk(t.val) ELSE HandleErr(MessageProcessingError)

\* what the caller does with the future it is given: it keeps it to await the
\* result, or drops it, and the receiver of the oneshot channel with it.
\* Nothing reads the future before the sender has sent or is dropped, so a
\* drop at any later time is the drop at once
Futures == IF abandons THEN {HandlePending, HandleDropped} ELSE {HandlePending}

\* Swarm::generate: a oneshot channel, a random query id, a Generate command
SwarmGenerate(c) ==
    /\ budget > 0
    /\ budget' = budget - 1
    /\ kind[c] = "none"
    /\ \A d \in Calls : d < c => kind[d] # "none"
    /\ kind' = [kind EXCEPT ![c] = "generate"]
    /\ tx' = [tx EXCEPT ![c] = TxOpen]
    /\ \E h \in Futures : handle' = [handle EXCEPT ![c] = h]
    /\ input' = Append(input, c)
    /\ UNCHANGED << network, addresses, abandons, onion, pc, query_id, result, elapsed, signature,
                    genVars, rxVars, chanVars, netVars >>

\* Swarm::sign: a oneshot channel, a random query id, a Sign command
SwarmSign(c) ==
    /\ budget > 0
    /\ budget' = budget - 1
    /\ kind[c] = "none"
    /\ \A d \in Calls : d < c => kind[d] # "none"
    /\ \E key \in Ids : onion' = [onion EXCEPT ![c] = key]
    /\ kind' = [kind EXCEPT ![c] = "sign"]
    /\ tx' = [tx EXCEPT ![c] = TxOpen]
    /\ \E h \in Futures : handle' = [handle EXCEPT ![c] = h]
    /\ input' = Append(input, c)
    /\ UNCHANGED << network, addresses, abandons, pc, query_id, result, elapsed, signature, genVars,
                    rxVars, chanVars, netVars >>

\* the caller polls the returned future: it completes once the sender has
\* sent or has been dropped
AwaitResult(c) ==
    /\ handle[c].st = "pending"
    /\ tx[c].st \in {"sent", "dropped"}
    /\ handle' = [handle EXCEPT ![c] = AwaitRx(tx[c])]
    /\ UNCHANGED << budget, network, addresses, abandons, kind, onion, input, tx, pc, query_id,
                    result, elapsed, signature, genVars, rxVars, chanVars, netVars >>

\* ------------------------------------------------ event dispatch loop
\* kad hands out a fresh QueryId for every query
NextQueryId == Cardinality({ d \in Calls : query_id[d] # 0 }) + 1

\* the loop takes the next command: begin-generation issues the peer lookup
\* and starts the generation coordinator; begin-signing starts the signing
\* coordinator
LoopInput ==
    /\ input # << >>
    /\ LET c == Head(input) IN
        /\ input' = Tail(input)
        /\ IF kind[c] = "generate"
           THEN /\ query_id' = [query_id EXCEPT ![c] = NextQueryId]
                /\ pc' = [pc EXCEPT ![c] = "start"]
           ELSE /\ pc' = [pc EXCEPT ![c] = "sign"]
                /\ UNCHANGED query_id
    /\ UNCHANGED << budget, network, addresses, abandons, kind, onion, tx, handle, result, elapsed,
                    signature, genVars, rxVars, chanVars, netVars >>

\* generate reads closest_peer_rx only in its first wait and subscribed_rx
\* only in its second: what a receiver is sent after its last read is never
\* looked at, and is left out of the state
ReadsClosest(c) == pc[c] \in {"start", "lookup"}

ReadsSubscribed(c) ==
    pc[c] \in {"lookup", "select", "subscribe", "invite", "join"}

\* tokio::sync::broadcast: every live receiver gets the value; a receiver
\* that already holds MaxBuf unread values loses them and is left lagged
Push(buf, e) ==
    IF Len(buf) >= MaxBuf THEN << Lagged >> ELSE Append(buf, e)

\* a receiver's copy of an event: generate reads the payload of an event only
\* when its key is the one it waits for, so the copy of any other event is
\* kept by its key alone
Copy(e, own) == IF e.key = own THEN e ELSE Event(e.key, << >>)

\* the loop forwards a closest-peers result of the lookup capability
ClosestPeersEvent ==
    /\ \E c \in Calls : ReadsClosest(c)
    /\ \E q \in KadQueryIds, ps \in network :
           closest_peer_rx' = [c \in Calls |->
               IF ReadsClosest(c)
               THEN Push(closest_peer_rx[c],
                         Copy(Event(QueryKey(q), ps), QueryKey(query_id[c])))
               ELSE closest_peer_rx[c]]
    /\ UNCHANGED << callVars, pc, query_id, result, elapsed, signature, genVars,
                    subscribed_rx, chanVars, netVars >>

\* the loop forwards a subscription event: the peers joined on a topic
SubscribedEvent ==
    /\ \E c \in Calls : ReadsSubscribed(c)
    /\ \E id \in Ids, ps \in network :
           subscribed_rx' = [c \in Calls |->
               IF ReadsSubscribed(c)
               THEN Push(subscribed_rx[c],
                         Copy(Event(TopicOf(id), ps), TopicOf(generation_id[c])))
               ELSE subscribed_rx[c]]
    /\ UNCHANGED << callVars, pc, query_id, result, elapsed, signature, genVars,
                    closest_peer_rx, chanVars, netVars >>

\* the loop takes a subscribe request and subscribes to the topic
LoopSubscribe ==
    /\ subscribe_tx # << >>
    /\ subscriptions' = subscriptions \cup {Head(subscribe_tx)}
    /\ subscribe_tx' = Tail(subscribe_tx)
    /\ UNCHANGED << callVars, pc, query_id, result, elapsed, signature, genVars,
                    rxVars, listener_vec, direct_peer_msg, peer_msg, sent_direct, published >>

\* the loop takes a direct message and sends it to its peer
LoopDirect ==
    /\ direct_peer_msg # << >>
    /\ sent_direct' = sent_direct (+) SetToBag({Head(direct_peer_msg)})
    /\ direct_peer_msg' = Tail(direct_peer_msg)
    /\ UNCHANGED << callVars, pc, query_id, result, elapsed, signature, genVars,
                    rxVars, listener_vec, subscribe_tx, peer_msg, subscriptions, published >>

\* the loop takes a topic message and publishes it
LoopPublish ==
    /\ peer_msg # << >>
    /\ published' = published (+) SetToBag({Head(peer_msg)})
    /\ peer_msg' = Tail(peer_msg)
    /\ UNCHANGED << callVars, pc, query_id, result, elapsed, signature, genVars,
                    rxVars, listener_vec, subscribe_tx, direct_peer_msg,
                    subscriptions, sent_direct >>

\* --------------------------------------- generation coordinator (input.rs)
\* the task ends: its receivers and its timer are dropped with it
Leave(c, at, res) ==
    /\ pc' = [pc EXCEPT ![c] = at]
    /\ result' = [result EXCEPT ![c] = res]
    /\ closest_peer_rx' = [closest_peer_rx EXCEPT ![c] = << >>]
    /\ subscribed_rx' = [subscribed_rx EXCEPT ![c] = << >>]
    /\ elapsed' = [elapsed EXCEPT ![c] = 0]

\* a return that falls through to the subscribe request
FinishFallsThrough(c, res) == Leave(c, "subscribe", res)

\* a return after which the task starts over
FinishRestart(c, res) == Leave(c, "start", res)

\* return Ok(()) / return Err(..)
Finish(c, res) == Leave(c, "done", res)

\* a panic unwinds the task
Panic(c) == Leave(c, "panicked", "panic")

\* generate, up to its first wait: the random generation id and the timer
GenStart(c) ==
    /\ pc[c] = "start"
    /\ \E id \in Ids : generation_id' = [generation_id EXCEPT ![c] = id]
    /\ elapsed' = [elapsed EXCEPT ![c] = 0]
    /\ pc' = [pc EXCEPT ![c] = "lookup"]
    /\ UNCHANGED << callVars, query_id, result, signature, peers, peer_map,
                    responses, count, rxVars, chanVars, netVars >>

\* only the second wait has a deadline
TimerFiredJoinOnly(c) == pc[c] = "join" /\ elapsed[c] >= JoinTimeout

\* timers that are ready as soon as they are armed
TimerFiredEarly(c) == pc[c] \in {"lookup", "join"}

\* only the first wait has a deadline
TimerFiredLookupOnly(c) == pc[c] = "lookup" /\ elapsed[c] >= LookupTimeout

\* the timer branch of either select!
TimerFired(c) ==
    \/ pc[c] = "lookup" /\ elapsed[c] >= LookupTimeout
    \/ pc[c] = "join" /\ elapsed[c] >= JoinTimeout

GenTimeout(c) ==
    /\ TimerFired(c)
    /\ Finish(c, "Timed out")
    /\ UNCHANGED << callVars, query_id, signature, genVars, chanVars, netVars >>

\* received_query_id == query_id
QueryMatches(c, e) == e.key = QueryKey(query_id[c])

\* the receive branch of the first select!
LookupRecv(c) ==
    /\ pc[c] = "lookup"
    /\ closest_peer_rx[c] # << >>
    /\ LET e == Head(closest_peer_rx[c]) IN
        IF e = Lagged
        THEN Panic(c) /\ UNCHANGED peers
        ELSE IF QueryMatches(c, e)
        THEN /\ peers' = [peers EXCEPT ![c] = e.peers]
             /\ pc' = [pc EXCEPT ![c] = "select"]
             /\ closest_peer_rx' = [closest_peer_rx EXCEPT ![c] = << >>]
             /\ elapsed' = [elapsed EXCEPT ![c] = 0]
             /\ UNCHANGED << result, subscribed_rx >>
        ELSE /\ closest_peer_rx' = [closest_peer_rx EXCEPT ![c] = Tail(@)]
             /\ UNCHANGED << pc, result, peers, elapsed, subscribed_rx >>
    /\ UNCHANGED << callVars, query_id, signature, generation_id, peer_map,
                    responses, count, chanVars, netVars >>

\* a draw that reads the i-th element and leaves it in the list
DrawPeerKept(ps, i) == ps

\* peers.remove(i): the list without its i-th element
DrawPeer(ps, i) == RemoveAt(ps, i)

\* a loop that also stops when the candidates are about to run out
LastDrawOrExhausted(c) ==
    Len(peer_map[c]) + 1 >= MAX_SIGNERS \/ Len(peers[c]) = 1

\* for _ in 0 .. MAX_SIGNERS: this draw is the last one
LastDraw(c) == Len(peer_map[c]) + 1 >= MAX_SIGNERS

\* one iteration of the selection loop: gen_range panics on an empty range
SelectPeer(c) ==
    /\ pc[c] = "select"
    /\ IF Len(peers[c]) = 0
       THEN Panic(c) /\ UNCHANGED << peers, peer_map >>
       ELSE /\ \E i \in 1 .. Len(peers[c]) :
                 /\ peer_map' = [peer_map EXCEPT
                                    ![c] = Append(@, PeerToString(peers[c][i]))]
                 /\ peers' = [peers EXCEPT ![c] = DrawPeer(@, i)]
            /\ pc' = [pc EXCEPT ![c] = IF LastDraw(c) THEN "subscribe" ELSE "select"]
            /\ UNCHANGED << result, elapsed, rxVars >>
    /\ UNCHANGED << callVars, query_id, signature, generation_id, responses,
                    count, chanVars, netVars >>

\* subscribe_tx.send(IdentTopic::new(generation_id))
Subscribe(c) ==
    /\ pc[c] = "subscribe"
    /\ subscribe_tx' = Append(subscribe_tx, TopicOf(generation_id[c]))
    /\ count' = [count EXCEPT ![c] = 1]
    /\ pc' = [pc EXCEPT ![c] = "invite"]
    /\ UNCHANGED << callVars, query_id, result, elapsed, signature, generation_id,
                    peers, peer_map, responses, rxVars, direct_peer_msg, peer_msg,
                    netVars >>

\* the JOIN_GEN message of loop iteration n, with the listen addresses read
\* in that iteration
JoinGen(c, n, addrs) ==
    [to |-> ParsePeer(peer_map[c][n]),
     data |-> Envelope("JOIN_GEN", << generation_id[c], LocalPeerId, n, addrs >>)]

\* a loop that stops one iteration short
InviteDoneEarly(c) == count[c] + 1 >= Len(peer_map[c])

\* count has reached peer_map.len(): this iteration is the last
InviteDone(c) == count[c] >= Len(peer_map[c])

\* one iteration of the invitation loop; after the last one the join timer.
\* listener_vec.read() sees the list as the node has it by then: other tasks
\* write to it, and it may have grown since the iteration before
Invite(c) ==
    /\ pc[c] = "invite"
    /\ \E n \in Len(listener_vec) .. Len(addresses) :
           listener_vec' = SubSeq(addresses, 1, n)
    /\ direct_peer_msg' = Append(direct_peer_msg, JoinGen(c, count[c], listener_vec'))
    /\ count' = [count EXCEPT ![c] = @ + 1]
    /\ IF InviteDone(c)
       THEN /\ pc' = [pc EXCEPT ![c] = "join"]
            /\ elapsed' = [elapsed EXCEPT ![c] = 0]
       ELSE UNCHANGED << pc, elapsed >>
    /\ UNCHANGED << callVars, query_id, result, signature, generation_id, peers,
                    peer_map, responses, rxVars, subscribe_tx, peer_msg,
                    subscriptions, sent_direct, published >>

\* a wait that takes the first subscription event, whatever its topic
TopicMatchesAny(c, e) == TRUE

\* topic.as_str() == generation_id
TopicMatches(c, e) == TopicStr(e.key) = generation_id[c]

\* the receive branch of the second select!
JoinRecv(c) ==
    /\ pc[c] = "join"
    /\ subscribed_rx[c] # << >>
    /\ LET e == Head(subscribed_rx[c]) IN
        IF e = Lagged
        THEN Panic(c) /\ UNCHANGED responses
        ELSE IF TopicMatches(c, e)
        THEN /\ responses' = [responses EXCEPT ![c] = e.peers]
             /\ pc' = [pc EXCEPT ![c] = "validate"]
             /\ subscribed_rx' = [subscribed_rx EXCEPT ![c] = << >>]
             /\ elapsed' = [elapsed EXCEPT ![c] = 0]
             /\ UNCHANGED << result, closest_peer_rx >>
        ELSE /\ subscribed_rx' = [subscribed_rx EXCEPT ![c] = Tail(@)]
             /\ UNCHANGED << pc, result, responses, elapsed, closest_peer_rx >>
    /\ UNCHANGED << callVars, query_id, signature, generation_id, peers,
                    peer_map, count, chanVars, netVars >>

\* a check that rejects only when no responder is in peer_map
InvalidResponderAll(resp, map) ==
    /\ Len(resp) > 0
    /\ \A i \in 1 .. Len(resp) : ~Contains(map, PeerToString(resp[i]))

\* some responder is not in peer_map
InvalidResponder(resp, map) ==
    \E i \in 1 .. Len(resp) : ~Contains(map, PeerToString(resp[i]))

GenR1(c) == [topic |-> TopicOf(generation_id[c]), data |-> Envelope("GEN_R1", << >>)]

\* validation of the responders, then the round-start broadcast
Validate(c) ==
    /\ pc[c] = "validate"
    /\ IF InvalidResponder(responses[c], peer_map[c])
       THEN /\ Finish(c, "Invalid peer responded")
            /\ UNCHANGED peer_msg
       ELSE /\ peer_msg' = Append(peer_msg, GenR1(c))
            /\ Finish(c, "Ok")
    /\ UNCHANGED << callVars, query_id, signature, genVars, subscribe_tx,
                    direct_peer_msg, netVars >>

\* ------------------------------------------ signing coordinator (input.rs)
\* a broadcast on the topic of the signing id
SignR1OnSession(c, id) ==
    [topic |-> TopicOf(id),
     data |-> Envelope("SIGN_R1", << id, onion[c], Message >>)]

SignR1(c, id) ==
    [topic |-> TopicOf(onion[c]),
     data |-> Envelope("SIGN_R1", << id, onion[c], Message >>)]

\* sign: a random signing id and one SIGN_R1 broadcast on the key's topic
Sign(c) ==
    /\ pc[c] = "sign"
    /\ \E id \in Ids :
         /\ generation_id' = [generation_id EXCEPT ![c] = id]
         /\ peer_msg' = Append(peer_msg, SignR1(c, id))
    /\ pc' = [pc EXCEPT ![c] = "signing"]
    /\ UNCHANGED << callVars, query_id, result, elapsed, signature, peers,
                    peer_map, responses, count, rxVars, subscribe_tx,
                    direct_peer_msg, netVars >>

\* the signing rounds end: the combined signature verifies against the group
\* key, or it does not, or the rounds time out
SignRounds(c) ==
    /\ pc[c] = "signing"
    /\ \E s \in {"valid", "invalid", "timeout"} :
         /\ signature' = [signature EXCEPT ![c] = s]
         /\ Finish(c, IF s = "valid" THEN "Ok"
                      ELSE IF s = "invalid" THEN InvalidSignature
                      ELSE "Timed out")
    /\ UNCHANGED << callVars, query_id, genVars, chanVars, netVars >>

\* the value a finished session sends on the call's oneshot channel; a
\* session that failed sends nothing and its sender is dropped
Resolution(c) ==
    IF result[c] # "Ok" THEN TxDropped
    ELSE IF kind[c] = "generate" THEN TxSent(VerifyingKeyOf(generation_id[c]))
    ELSE TxSent(SignatureOf(c))

LoopResolve(c) ==
    /\ pc[c] \in {"done", "panicked"}
    /\ tx[c].st = "open"
    /\ tx' = [tx EXCEPT ![c] = Resolution(c)]
    /\ UNCHANGED << budget, network, addresses, abandons, kind, onion, input, handle, pc, query_id,
                    result, elapsed, signature, genVars, rxVars, chanVars, netVars >>

\* ------------------------------------------------------------------ time
Waiting(c) == pc[c] \in {"lookup", "join"}

Deadline(c) == IF pc[c] = "lookup" THEN LookupTimeout ELSE JoinTimeout

Min(a, b) == IF a <= b THEN a ELSE b

\* tokio::time::sleep: the clock advances for every armed timer
Tick ==
    /\ \E c \in Calls : Waiting(c) /\ elapsed[c] < Deadline(c)
    /\ elapsed' = [c \in Calls |->
                      IF Waiting(c) THEN Min(elapsed[c] + TickStep, Deadline(c))
                      ELSE elapsed[c]]
    /\ UNCHANGED << callVars, pc, query_id, result, signature, genVars, rxVars,
                    chanVars, netVars >>

\* ------------------------------------------------------- specification
Next ==
    \/ \E c \in Calls : SwarmGenerate(c)
    \/ \E c \in Calls : SwarmSign(c)
    \/ \E c \in Calls : AwaitResult(c)
    \/ LoopInput
    \/ ClosestPeersEvent
    \/ SubscribedEvent
    \/ LoopSubscribe
    \/ LoopDirect
    \/ LoopPublish
    \/ \E c \in Calls : LoopResolve(c)
    \/ \E c \in Calls : GenStart(c)
    \/ \E c \in Calls : GenTimeout(c)
    \/ \E c \in Calls : LookupRecv(c)
    \/ \E c \in Calls : SelectPeer(c)
    \/ \E c \in Calls : Subscribe(c)
    \/ \E c \in Calls : Invite(c)
    \/ \E c \in Calls : JoinRecv(c)
    \/ \E c \in Calls : Validate(c)
    \/ \E c \in Calls : Sign(c)
    \/ \E c \in Calls : SignRounds(c)
    \/ Tick

Spec == Init /\ [][Next]_vars

SpecPair == InitPair /\ [][Next]_vars

SpecAddrs == InitAddrs /\ [][Next]_vars

\* fair scheduling: the clock advances, every task that can take a step takes
\* it, the loop serves its queues and the caller polls its future; select!
\* picks at random among its ready branches, so a timer that has fired is
\* taken in the end
Fairness ==
    /\ WF_vars(Tick)
    /\ WF_vars(LoopInput)
    /\ \A c \in Calls :
          /\ WF_vars(GenStart(c))
          /\ WF_vars(GenTimeout(c))
          /\ WF_vars(SelectPeer(c))
          /\ WF_vars(Subscribe(c))
          /\ WF_vars(Invite(c))
          /\ WF_vars(Validate(c))
          /\ WF_vars(Sign(c))
          /\ WF_vars(SignRounds(c))
          /\ WF_vars(LoopResolve(c))
          /\ WF_vars(AwaitResult(c))

LiveSpec == Init /\ [][Next]_vars /\ Fairness

LiveSpecDrop == InitDrop /\ [][Next]_vars /\ Fairness

\* ================================================================ claims
Generating(c) == kind[c] = "generate"

\* the session has left the selection loop
Selected(c) == Generating(c) /\ (pc[c] = "subscribe" \/ count[c] >= 1)

\* every JOIN_GEN the session has handed over, taken by the loop or not
JoinGens == Range(direct_peer_msg) \cup BagToSet(sent_direct)

JoinGensOf(c) == { m \in JoinGens : m.data.b64[1] = generation_id[c] }

\* every topic message handed over, taken by the loop or not
Broadcasts == Range(peer_msg) \cup BagToSet(published)

RoundStarted(c) == GenR1(c) \in Broadcasts

Injective(s) == \A i, j \in 1 .. Len(s) : s[i] = s[j] => i = j

\* C1: a session past peer selection has exactly MAX_SIGNERS selected peers,
\* no peer twice, and every invitation carries the 1-based position of its
\* peer in selection order
C1_ParticipantSet ==
    \A c \in Calls : Selected(c) =>
        /\ Len(peer_map[c]) = MAX_SIGNERS
        /\ Injective(peer_map[c])
        /\ \A m \in JoinGensOf(c) :
              /\ m.data.b64[3] \in 1 .. MAX_SIGNERS
              /\ peer_map[c][m.data.b64[3]] = PeerToString(m.to)

C1_Witness ==
    \E c \in Calls :
        /\ pc[c] = "join"
        /\ Cardinality(JoinGensOf(c)) = MAX_SIGNERS
        /\ Len(peers[c]) > 0

\* C2: when the joined peers of the session's subscription event include a
\* peer outside the selected set, the session ends with the invalid-peer
\* error, no GEN_R1 is broadcast and the caller gets no key
C2_InvalidPeerFails ==
    \A c \in Calls :
        (Generating(c) /\ \E i \in 1 .. Len(responses[c]) :
                             ~Contains(peer_map[c], PeerToString(responses[c][i])))
        => /\ pc[c] \in {"validate", "done"}
           /\ pc[c] = "done" => result[c] = InvalidPeer
           /\ ~RoundStarted(c)
           /\ tx[c].st # "sent"
           /\ handle[c].st # "ok"

C2_Witness ==
    \E c \in Calls :
        /\ result[c] = InvalidPeer
        /\ Len(responses[c]) > MAX_SIGNERS
        /\ handle[c].st = "err"

\* C3: every JOIN_GEN invitation put on the network belongs to a session
\* whose topic the node has already subscribed to
C3_SubscribedBeforeInvited ==
    \A m \in BagToSet(sent_direct) :
        TopicOf(m.data.b64[1]) \in subscriptions

AllJoined(c) ==
    \A i \in 1 .. Len(peer_map[c]) :
        \E j \in 1 .. Len(responses[c]) :
            PeerToString(responses[c][j]) = peer_map[c][i]

\* C4: GEN_R1 is broadcast and the session returns Ok only when every one of
\* the MAX_SIGNERS selected peers is among the joined peers
C4_RoundStartNeedsAllJoined ==
    \A c \in Calls :
        (Generating(c) /\ (RoundStarted(c) \/ result[c] = "Ok")) => AllJoined(c)

\* C5: a call whose generation session failed with a timeout or an invalid
\* peer resolves its handle with that very error
C5_SpecificErrorReachesCaller ==
    \A c \in Calls :
        (/\ Generating(c)
         /\ result[c] \in {"Timed out", InvalidPeer}
         /\ handle[c].st \in {"ok", "err"})
        => handle[c] = HandleErr(result[c])

Resolved(c) == handle[c].st \in {"ok", "err"}

\* C6: every call that is pending is resolved in the end, with a value or
\* with an error
C6_EveryCallResolves ==
    \A c \in Calls : (handle[c].st = "pending") ~> Resolved(c)

C6_Witness ==
    \E c \in Calls :
        /\ Generating(c)
        /\ result[c] = "Timed out"
        /\ count[c] > MAX_SIGNERS
        /\ Resolved(c)

TimedOut(c) == Generating(c) /\ result[c] = "Timed out"

\* C7: a session fails with the timeout error only once the deadline of its
\* wait has passed, and a wait past its deadline with no event to read ends
\* in no other way; from then on the session holds no receiver, its result
\* stands and nothing more is handed to the subscribe, direct-message or
\* topic channels
C7_TimeoutReleases ==
    [][\A c \in Calls :
         /\ (Generating(c) /\ result[c] = "none" /\ result'[c] = "Timed out")
            => /\ Waiting(c)
               /\ elapsed[c] >= Deadline(c)
               /\ pc'[c] = "done"
         /\ (/\ Generating(c) /\ Waiting(c) /\ elapsed[c] >= Deadline(c)
             /\ closest_peer_rx[c] = << >> /\ subscribed_rx[c] = << >>
             /\ pc'[c] # pc[c])
            => result'[c] = "Timed out"
         /\ TimedOut(c)
            => /\ pc'[c] = "done" /\ result'[c] = "Timed out"
               /\ closest_peer_rx'[c] = << >> /\ subscribed_rx'[c] = << >>
               /\ peer_map'[c] = peer_map[c] /\ responses'[c] = responses[c]
               /\ Len(subscribe_tx') <= Len(subscribe_tx)
               /\ Len(direct_peer_msg') <= Len(direct_peer_msg)
               /\ Len(peer_msg') <= Len(peer_msg)
               /\ tx'[c].st # "sent"
      ]_vars

C7_Witness ==
    \E c \in Calls :
        /\ TimedOut(c)
        /\ count[c] > MAX_SIGNERS
        /\ tx[c].st = "dropped"

Distinct(c, d) ==
    /\ c # d
    /\ Generating(c) /\ Generating(d)
    /\ query_id[c] # query_id[d]
    /\ generation_id[c] # generation_id[d]

\* C8: of two generation sessions with different session ids and different
\* query ids, each leaves its lookup wait only on a result carrying its own
\* QueryId and its join wait only on an event for its own topic, never on one
\* that belongs to the other session, and takes its peers from that event
C8_NoCrossDelivery ==
    [][\A c, d \in Calls : Distinct(c, d) =>
         /\ (pc[c] = "lookup" /\ pc'[c] = "select")
            => /\ Head(closest_peer_rx[c]).key = QueryKey(query_id[c])
               /\ Head(closest_peer_rx[c]).key # QueryKey(query_id[d])
               /\ peers'[c] = Head(closest_peer_rx[c]).peers
         /\ (pc[c] = "join" /\ pc'[c] = "validate")
            => /\ Head(subscribed_rx[c]).key = TopicOf(generation_id[c])
               /\ Head(subscribed_rx[c]).key # TopicOf(generation_id[d])
               /\ responses'[c] = Head(subscribed_rx[c]).peers
      ]_vars

\* both sessions hold the same subscription event of session c: c has left
\* its join wait on it, d still has it unread
C8_Witness ==
    \E c, d \in Calls :
        /\ Distinct(c, d)
        /\ pc[c] = "validate"
        /\ pc[d] = "join"
        /\ subscribed_rx[d] # << >>
        /\ Head(subscribed_rx[d]).key = TopicOf(generation_id[c])

\* C9: a oneshot sender that has sent or has been dropped stays as it is, a
\* completed future stays as it is, and the future completes with the value
\* that was sent, or with an error when the sender was dropped
C9_SignalledOnce ==
    [][\A c \in Calls :
         /\ tx[c].st \in {"sent", "dropped"} => tx'[c] = tx[c]
         /\ Resolved(c) => handle'[c] = handle[c]
         /\ handle'[c].st = "ok"
            => tx'[c].st = "sent" /\ handle'[c].val = tx'[c].val
         /\ handle'[c].st = "err"
            => tx'[c].st = "dropped" /\ handle'[c].err = MessageProcessingError
      ]_vars

C9_Witness ==
    \E c \in Calls :
        /\ Generating(c)
        /\ tx[c] = TxSent(VerifyingKeyOf(generation_id[c]))
        /\ handle[c] = HandleOk(VerifyingKeyOf(generation_id[c]))

\* C10: a sign call whose signature failed verification resolves with the
\* InvalidSignature error, and never with a signature
C10_InvalidSignatureReported ==
    \A c \in Calls :
        (kind[c] = "sign" /\ signature[c] = "invalid" /\ Resolved(c))
        => handle[c] = HandleErr(InvalidSignature)

\* the session has drawn its id and has not returned yet
Active(c) ==
    pc[c] \in {"lookup", "select", "subscribe", "invite", "join", "validate",
               "signing"}

\* C11: no two sessions that are active at the same time, generation or
\* signing, have the same session id
C11_ActiveIdsDiffer ==
    \A c, d \in Calls :
        (c # d /\ Active(c) /\ Active(d)) => generation_id[c] # generation_id[d]

\* C12: once generate has returned, with Ok or with an error, the node is no
\* longer subscribed to the topic of its session
C12_TopicReleased ==
    \A c \in Calls :
        (Generating(c) /\ pc[c] = "done")
        => TopicOf(generation_id[c]) \notin subscriptions

\* how often a direct message has been handed over, taken by the loop or not
CopiesSent(m) ==
    Cardinality({ i \in 1 .. Len(direct_peer_msg) : direct_peer_msg[i] = m })
    + CopiesIn(m, sent_direct)

\* JOIN_GEN messages of session c addressed to peer p, each with its copies
InvitationsTo(c, p) ==
    LET ms == { m \in JoinGensOf(c) : m.to = p }
        Total[S \in SUBSET ms] ==
            IF S = {} THEN 0
            ELSE LET m == CHOOSE x \in S : TRUE IN CopiesSent(m) + Total[S \ {m}]
    IN Total[ms]

\* session c has left its invitation loop, or has returned before it
Invited(c) == Generating(c) /\ pc[c] \in {"join", "validate", "done"}

\* the address lists the node has had so far
AddrLists == { SubSeq(listener_vec, 1, n) : n \in 1 .. Len(listener_vec) }

InvitationsSent ==
    \A c \in Calls : Generating(c) =>
        /\ \A p \in Peers :
              InvitationsTo(c, p) =
                  IF \E i \in 1 .. Len(peer_map[c]) :
                        i < count[c] /\ peer_map[c][i] = PeerToString(p)
                  THEN 1 ELSE 0
        /\ Invited(c) =>
              \A p \in Peers :
                  InvitationsTo(c, p) =
                      IF Contains(peer_map[c], PeerToString(p)) THEN 1 ELSE 0
        /\ \A m \in JoinGensOf(c) :
              /\ m.data.tag = "JOIN_GEN"
              /\ Len(m.data.b64) = 4
              /\ m.data.b64[2] = LocalPeerId
              /\ m.data.b64[3] \in 1 .. Len(peer_map[c])
              /\ peer_map[c][m.data.b64[3]] = PeerToString(m.to)
              /\ m.data.b64[4] \in AddrLists

InvitationStep ==
    \A c \in Calls :
        (pc[c] = "invite" /\ count'[c] # count[c])
        => /\ count'[c] = count[c] + 1
           /\ direct_peer_msg' =
                 Append(direct_peer_msg,
                        [to |-> ParsePeer(peer_map[c][count[c]]),
                         data |-> [tag |-> "JOIN_GEN",
                                   b64 |-> << generation_id[c], LocalPeerId,
                                              count[c], listener_vec' >>]])

\* C13: the invitation loop hands over exactly one JOIN_GEN for every selected
\* peer and none for any other peer; the invitation of the peer at position i
\* carries the session id, the inviter's own peer id, the index i counted
\* from 1, and the inviter's listen addresses as read when it is sent
C13_OneInvitationEach == []InvitationsSent /\ [][InvitationStep]_vars

\* every invitation is out, and the address list grew between two of them
C13_Witness ==
    \E c \in Calls :
        /\ Invited(c)
        /\ Len(peers[c]) > 0
        /\ Cardinality(JoinGensOf(c)) = MAX_SIGNERS
        /\ \E m, n \in JoinGensOf(c) : m.data.b64[4] # n.data.b64[4]

Signing(c) == kind[c] = "sign"

\* how often a topic message has been handed over, taken by the loop or not
CopiesBroadcast(m) ==
    Cardinality({ i \in 1 .. Len(peer_msg) : peer_msg[i] = m })
    + CopiesIn(m, published)

\* all topic messages handed over, with their copies
BroadcastCount == Len(peer_msg) + BagCardinality(published)

\* sign has run for call c
Signed(c) == Signing(c) /\ pc[c] \in {"signing", "done"}

\* C14: a sign call draws a session id and broadcasts exactly one SIGN_R1, on
\* the topic of the group key, carrying the session id, the group key and the
\* message; it issues no lookup, subscribes to nothing, invites no peer and
\* waits in no join barrier
C14_SignBroadcastsOnce ==
    \A c \in Calls : Signing(c) =>
        /\ query_id[c] = 0
        /\ peers[c] = << >> /\ peer_map[c] = << >> /\ responses[c] = << >>
        /\ count[c] = 0 /\ elapsed[c] = 0
        /\ closest_peer_rx[c] = << >> /\ subscribed_rx[c] = << >>
        /\ subscribe_tx = << >> /\ subscriptions = {}
        /\ JoinGens = {}
        /\ ~Waiting(c)
        /\ ~Signed(c) => BroadcastCount = 0
        /\ Signed(c) =>
              /\ generation_id[c] \in Ids
              /\ BroadcastCount = 1
              /\ CopiesBroadcast([topic |-> TopicOf(onion[c]),
                                  data |-> [tag |-> "SIGN_R1",
                                            b64 |-> << generation_id[c], onion[c],
                                                       Message >>]]) = 1

\* the broadcast of a sign call is on the network, and its session id is not
\* the group key
C14_Witness ==
    \E c \in Calls :
        /\ Signed(c)
        /\ generation_id[c] # onion[c]
        /\ BagCardinality(published) = 1

Dropped(c) == handle[c] = HandleDropped

\* the session task of call c has come to its end
Ended(c) == pc[c] \in {"done", "panicked"}

\* a dropped future stays dropped: no value and no error ever reaches it
DroppedStays == \A c \in Calls : Dropped(c) => handle'[c] = HandleDropped

\* C15: a generate call whose future has been dropped still has its session
\* run: the session comes to its end as any session does, by returning Ok or
\* an error or by the abort of peer selection, and what it produced reaches
\* no one
C15_DropDoesNotStop ==
    /\ \A c \in Calls : (Generating(c) /\ Dropped(c)) ~> Ended(c)
    /\ [][DroppedStays]_vars

\* the session of a dropped future went through lookup, subscription,
\* invitations and the join wait, and broadcast GEN_R1
C15_Witness ==
    \E c \in Calls :
        /\ Generating(c) /\ Dropped(c)
        /\ result[c] = "Ok"
        /\ count[c] > MAX_SIGNERS
        /\ GenR1(c) \in BagToSet(published)
        /\ tx[c].st = "sent"

\* the states of a generation session: 0 Idle, 1 LookingUpPeers,
\* 2 AwaitingJoinResponses, 3 Complete or Failed
Phase(at) ==
    IF at \in {"idle", "start"} THEN 0
    ELSE IF at = "lookup" THEN 1
    ELSE IF at \in {"select", "subscribe", "invite", "join", "validate"} THEN 2
    ELSE 3

\* the position of the task in generate, in program order
Rank(at) ==
    CASE at = "idle" -> 0
      [] at = "start" -> 1
      [] at = "lookup" -> 2
      [] at = "select" -> 3
      [] at = "subscribe" -> 4
      [] at = "invite" -> 5
      [] at = "join" -> 6
      [] at = "validate" -> 7
      [] OTHER -> 8

Failed(c) == Ended(c) /\ result[c] # "Ok"

SubscribeRequested(c) ==
    TopicOf(generation_id[c]) \in Range(subscribe_tx) \cup subscriptions

\* everything handed to the three channels so far, taken by the loop or not
HandedOver ==
    << Len(subscribe_tx) + Cardinality(subscriptions),
       Len(direct_peer_msg) + BagCardinality(sent_direct),
       Len(peer_msg) + BagCardinality(published) >>

InOrder ==
    \A c \in Calls : Generating(c) =>
        /\ peers[c] # << >> => Rank(pc[c]) >= Rank("select")
        /\ SubscribeRequested(c)
           => Rank(pc[c]) >= Rank("invite") /\ Len(peer_map[c]) = MAX_SIGNERS
        /\ JoinGensOf(c) # {} => SubscribeRequested(c)
        /\ Invited(c) /\ Len(peer_map[c]) > 0
           => /\ SubscribeRequested(c)
              /\ \A p \in Peers : Contains(peer_map[c], PeerToString(p))
                                  => InvitationsTo(c, p) = 1
        /\ responses[c] # << >> => Rank(pc[c]) >= Rank("validate")
        /\ CopiesBroadcast(GenR1(c)) <= 1
        /\ CopiesBroadcast(GenR1(c)) = 1
           => /\ pc[c] = "done" /\ result[c] = "Ok"
              /\ \A p \in Peers : Contains(peer_map[c], PeerToString(p))
                                  => InvitationsTo(c, p) = 1
        /\ Failed(c) => CopiesBroadcast(GenR1(c)) = 0

Forward ==
    \A c \in Calls : Generating(c) =>
        /\ Rank(pc'[c]) >= Rank(pc[c])
        /\ Phase(pc'[c]) \in {Phase(pc[c]), Phase(pc[c]) + 1, 3}
        /\ Ended(c) => pc'[c] = pc[c] /\ result'[c] = result[c]
        /\ Failed(c) => HandedOver' = HandedOver

\* C16: a generation session only moves forward, from Idle through
\* LookingUpPeers and AwaitingJoinResponses to Complete or Failed; it takes
\* the matching lookup result, then requests the subscription, then sends all
\* invitations, then takes the matching subscription event, then broadcasts
\* GEN_R1, at most once and never before every invitation is sent; once it
\* has failed it sends nothing more
C16_ForwardOnly == []InOrder /\ [][Forward]_vars

\* a session that went through every step: subscribed, every invitation and
\* GEN_R1 on the network, the caller holding the key
C16_Witness ==
    \E c \in Calls :
        /\ Generating(c)
        /\ result[c] = "Ok"
        /\ TopicOf(generation_id[c]) \in subscriptions
        /\ BagCardinality(sent_direct) = MAX_SIGNERS
        /\ CopiesIn(GenR1(c), published) = 1
        /\ handle[c].st = "ok"

\* the wait of session c ends on the event for its own query or topic
EndsOnMatch(c) ==
    \/ /\ pc[c] = "lookup" /\ pc'[c] = "select"
       /\ closest_peer_rx[c] # << >>
       /\ Head(closest_peer_rx[c]).key = QueryKey(query_id[c])
    \/ /\ pc[c] = "join" /\ pc'[c] = "validate"
       /\ subscribed_rx[c] # << >>
       /\ Head(subscribed_rx[c]).key = TopicOf(generation_id[c])

\* the wait of session c ends on its deadline
EndsOnDeadline(c) ==
    elapsed[c] >= Deadline(c) /\ pc'[c] = "done" /\ result'[c] = "Timed out"

\* C17: events for another query or another topic neither end a wait of
\* generate nor move its deadline: a wait ends only on its matching event or
\* on its deadline, and while it lasts the time counted towards the deadline
\* never goes back
C17_UnrelatedEventsIgnored ==
    [][\A c \in Calls : (Generating(c) /\ Waiting(c)) =>
         /\ pc'[c] # pc[c] => EndsOnMatch(c) \/ EndsOnDeadline(c)
         /\ pc'[c] = pc[c] => elapsed'[c] >= elapsed[c]
      ]_vars

\* the session timed out before its invitation loop was ever entered
LookupTimedOut(c) == TimedOut(c) /\ count[c] = 0

NothingSent == HandedOver = << 0, 0, 0 >>

SilentAfterLookupTimeout ==
    \A c \in Calls : (Generating(c) /\ LookupTimedOut(c)) =>
        /\ pc[c] = "done"
        /\ peers[c] = << >> /\ peer_map[c] = << >> /\ responses[c] = << >>
        /\ NothingSent
        /\ subscriptions = {} /\ JoinGens = {} /\ Broadcasts = {}
        /\ tx[c].st # "sent" /\ handle[c].st # "ok"

LookupTimeoutStep ==
    \A c \in Calls :
        (Generating(c) /\ pc[c] = "lookup" /\ result'[c] = "Timed out")
        => /\ elapsed[c] >= LookupTimeout
           /\ pc'[c] = "done"
           /\ count'[c] = 0
           /\ HandedOver' = HandedOver

\* C18: a generate whose lookup wait times out returns the timeout error and
\* has sent nothing: no subscribe request, no JOIN_GEN, no GEN_R1, and it has
\* selected no participant
C18_LookupTimeoutSendsNothing ==
    []SilentAfterLookupTimeout /\ [][LookupTimeoutStep]_vars

\* the lookup wait timed out and the caller has its error
C18_Witness ==
    \E c \in Calls :
        /\ Generating(c) /\ LookupTimedOut(c)
        /\ tx[c].st = "dropped"
        /\ handle[c].st = "err"

\* the peers of the lookup result the session took: those still in the
\* candidate list and those drawn from it
Candidates(c) == Len(peers[c]) + Len(peer_map[c])

\* the session took a lookup result and is selecting from fewer than
\* MAX_SIGNERS peers
ShortSelection(c) ==
    Generating(c) /\ pc[c] = "select" /\ Candidates(c) < MAX_SIGNERS

NoPartialSet ==
    \A c \in Calls : (Generating(c) /\ Candidates(c) < MAX_SIGNERS) =>
        /\ pc[c] \notin {"subscribe", "invite", "join", "validate"}
        /\ pc[c] = "done" => LookupTimedOut(c)
        /\ NothingSent
        /\ subscriptions = {} /\ JoinGens = {} /\ Broadcasts = {}
        /\ tx[c].st # "sent"

ShortSelectionStep ==
    \A c \in Calls : ShortSelection(c) =>
        /\ pc'[c] \in {"select", "panicked"}
        /\ peers[c] = << >> /\ pc'[c] # pc[c] => result'[c] = "panic"
        /\ Candidates(c)' = Candidates(c)
        /\ HandedOver' = HandedOver

\* C19: a session whose matching lookup result has fewer than MAX_SIGNERS
\* peers never subscribes, invites or broadcasts: its selection loop draws
\* until the candidate list is empty and the next draw panics, which ends the
\* task before the subscribe request
C19_ShortResultAborts ==
    /\ []NoPartialSet
    /\ [][ShortSelectionStep]_vars
    /\ \A c \in Calls : ShortSelection(c) ~> (pc[c] = "panicked")

\* one peer was drawn from a result of one, the next draw panicked, and the
\* caller has its error
C19_Witness ==
    \E c \in Calls :
        /\ Generating(c)
        /\ pc[c] = "panicked"
        /\ Len(peer_map[c]) = MAX_SIGNERS - 1
        /\ peers[c] = << >>
        /\ NothingSent
        /\ handle[c].st = "err"

====
